---- MODULE Spec2Model ----
(***************************************************************************)
(* Product recommendation service: the engine (recommendation_engine.py),  *)
(* the HTTP boundary (main.py) and the cache facade (cache.py).            *)
(***************************************************************************)
EXTENDS Integers, Sequences, FiniteSets, TLC

VARIABLES
    dataFile,            \* data.csv on disk: "missing", "malformed" or "ok"
    df,                  \* rows of data.csv (meaningful when dataFile = "ok")
    hashOrder,           \* iteration order of Python sets of pids in this process
    pc,                  \* "import" while main.py is being imported, then "serving"
    engine,              \* main.py's global: "None" or "RecommendationEngine"
    attrs,               \* attributes set on the engine object
    user_product_stats,  \* engine.user_product_stats: set of aggregated rows
    product_popularity,  \* engine.product_popularity: rows, sorted by score
    product_brands,      \* engine.product_brands: pid -> brand
    cooccurrence,        \* engine.cooccurrence: pid -> list of pids
    response,            \* the last HTTP response sent
    kdb,                 \* CacheManager.kdb: "None" or "Redis"
    store,               \* contents of the KeyDB store: key -> stored text
    storeUp,             \* whether the store answers (FALSE: every call raises)
    cacheCall            \* the CacheManager call made since the store last changed

engineVars == <<engine, attrs, user_product_stats, product_popularity, product_brands,
                cooccurrence>>
httpVars == <<dataFile, df, hashOrder, pc, response>>
cacheVars == <<kdb, store, storeUp, cacheCall>>
vars == <<dataFile, df, hashOrder, pc, engine, attrs, user_product_stats,
          product_popularity, product_brands, cooccurrence, response,
          kdb, store, storeUp, cacheCall>>

----------------------------------------------------------------------------
(* Generic helpers *)

Max(a, b) == IF a >= b THEN a ELSE b
Min(a, b) == IF a <= b THEN a ELSE b
Range(s) == {s[i] : i \in DOMAIN s}
EmptyDict == [x \in {} |-> 0]

RECURSIVE SumCol(_, _)
SumCol(rows, col) ==
    IF rows = {} THEN 0
    ELSE LET r == CHOOSE x \in rows : TRUE
         IN  r[col] + SumCol(rows \ {r}, col)

\* All subsets of S with at most k elements.
RECURSIVE SubsetsUpTo(_, _)
SubsetsUpTo(S, k) ==
    IF k = 0 THEN {{}}
    ELSE LET smaller == SubsetsUpTo(S, k - 1)
         IN  smaller \cup {T \cup {x} : T \in smaller, x \in S}

\* All enumerations of S in which key is non-increasing.
RECURSIVE SortedDesc(_, _)
SortedDesc(S, key) ==
    IF S = {} THEN {<<>>}
    ELSE LET m == CHOOSE v \in {key[x] : x \in S} : \A y \in S : key[y] <= v
             top == {x \in S : key[x] = m}
         IN  UNION {{<<x>> \o t : t \in SortedDesc(S \ {x}, key)} : x \in top}

\* All functions f on D with f[p] \in opts[p].
RECURSIVE Choices(_, _)
Choices(opts, D) ==
    IF D = {} THEN {EmptyDict}
    ELSE LET p == CHOOSE x \in D : TRUE
         IN  {(p :> s) @@ f : s \in opts[p], f \in Choices(opts, D \ {p})}

----------------------------------------------------------------------------
(* RecommendationEngine._prepare_data *)

\* df.groupby(['uid', 'pid', 'brand']).agg(sum).reset_index()
UserProductStats(d) ==
    {LET g == {r \in d : r.uid = k[1] /\ r.pid = k[2] /\ r.brand = k[3]}
     IN  [uid |-> k[1], pid |-> k[2], brand |-> k[3],
          click |-> SumCol(g, "click"),
          add_to_cart |-> SumCol(g, "add_to_cart"),
          purchase |-> SumCol(g, "purchase")]
     : k \in {<<r.uid, r.pid, r.brand>> : r \in d}}

\* df.groupby(['pid', 'brand']).agg(sum).reset_index()
PopularityAgg(d) ==
    {LET g == {r \in d : r.pid = k[1] /\ r.brand = k[2]}
     IN  [pid |-> k[1], brand |-> k[2],
          click |-> SumCol(g, "click"),
          add_to_cart |-> SumCol(g, "add_to_cart"),
          purchase |-> SumCol(g, "purchase")]
     : k \in {<<r.pid, r.brand>> : r \in d}}

\* variant: the two coefficients computed with floor division (//)
PopularityScoreFloorDivision(row, agg) ==
    LET P == SumCol(agg, "purchase")
        C == Max(SumCol(agg, "click"), 1)
        A == Max(SumCol(agg, "add_to_cart"), 1)
    IN  (row.click * (P \div C) + row.add_to_cart * (P \div A) + row.purchase)
            * C * A

\* popularity_score = click*P/max(C,1) + add_to_cart*P/max(A,1) + purchase,
\* kept exact as the numerator over the common denominator max(C,1)*max(A,1).
PopularityScore(row, agg) ==
    LET P == SumCol(agg, "purchase")
        C == Max(SumCol(agg, "click"), 1)
        A == Max(SumCol(agg, "add_to_cart"), 1)
    IN  row.click * P * A + row.add_to_cart * P * C + row.purchase * C * A

WithScore(agg) ==
    {[pid |-> r.pid, brand |-> r.brand, click |-> r.click,
      add_to_cart |-> r.add_to_cart, purchase |-> r.purchase,
      popularity_score |-> PopularityScore(r, agg)] : r \in agg}

\* sort_values('popularity_score', ascending=False): the order of rows with
\* equal scores is not fixed by the sort, so every such order is an outcome.
PopularityRankings(d) ==
    LET rows == WithScore(PopularityAgg(d))
    IN  SortedDesc(rows, [r \in rows |-> r.popularity_score])

\* df[['pid','brand']].drop_duplicates('pid'): the brand of the first row of
\* each pid in file order; df carries no order, so any brand the pid occurs
\* with can be the first one.
ProductBrandMaps(d) ==
    LET pids == {r.pid : r \in d}
    IN  Choices([p \in pids |-> {r.brand : r \in {x \in d : x.pid = p}}], pids)

----------------------------------------------------------------------------
(* RecommendationEngine._prepare_cooccurrence *)

\* rows with purchase > 0 or add_to_cart > 0
EngagedRows(stats) == {r \in stats : r.purchase > 0 \/ r.add_to_cart > 0}

\* user_purchases[uid] lists the pid of every engaged row of uid (one entry per
\* (pid, brand) row); each pair of list positions i < j increments
\* cooccur_counts[pid_i][pid_j] and cooccur_counts[pid_j][pid_i].
CooccurCount(stats, p, q) ==
    LET eng == EngagedRows(stats)
        hits == {pr \in {{r1, r2} : r1 \in {r \in eng : r.pid = p},
                                    r2 \in {r \in eng : r.pid = q}} :
                    /\ Cardinality(pr) = 2
                    /\ \A r1, r2 \in pr : r1.uid = r2.uid}
    IN  IF p = q THEN 2 * Cardinality(hits) ELSE Cardinality(hits)

\* cooccur_counts as pid -> (pid -> count), keys present only once incremented
CooccurCounts(stats) ==
    LET pids == {r.pid : r \in EngagedRows(stats)}
        keys == {p \in pids : \E q \in pids : CooccurCount(stats, p, q) > 0}
    IN  [p \in keys |->
            [q \in {x \in pids : CooccurCount(stats, p, x) > 0} |->
                CooccurCount(stats, p, q)]]

\* For one pid: frequency tiers from the highest count down, each tier in any
\* order random.shuffle can leave it in.
TierShuffles(similar_products) ==
    SortedDesc(DOMAIN similar_products, similar_products)

\* every value self.cooccurrence can take after the build
Cooccurrences(stats) ==
    LET counts == CooccurCounts(stats)
    IN  Choices([p \in DOMAIN counts |-> TierShuffles(counts[p])], DOMAIN counts)

----------------------------------------------------------------------------
(* RecommendationEngine.get_recommendations and what it calls *)

\* default of fill_with_popular_products' max_count parameter
max_count == 5

\* iteration of a Python set of pids: the process's hash order restricted to S
SetIter(S) ==
    LET In(p) == p \in S
    IN  SelectSeq(hashOrder, In)

\* self.product_brands.get(pid, 'unknown')
BrandOf(brands, pid) == IF pid \in DOMAIN brands THEN brands[pid] ELSE "unknown"

\* variant: clicks left out of the interest test
InterestedProductsWithoutClicks(user_data) ==
    {r.pid : r \in {x \in user_data : x.add_to_cart > 0 \/ x.purchase > 0}}

\* interested_products: pids of the user's rows with any positive counter
InterestedProducts(user_data) ==
    {r.pid : r \in {x \in user_data :
                       x.add_to_cart > 0 \/ x.click > 0 \/ x.purchase > 0}}

\* variant: self.cooccurrence[seed_pid] indexed without the membership test
SeedLookupByIndexing(cooc, seed_pid) ==
    IF seed_pid \in DOMAIN cooc
    THEN [list |-> cooc[seed_pid], dict |-> cooc]
    ELSE [list |-> <<>>, dict |-> (seed_pid :> <<>>) @@ cooc]

\* `if seed_pid in self.cooccurrence: for similar_pid in self.cooccurrence[seed_pid]`:
\* the list that is iterated and the dict afterwards (indexing a defaultdict
\* with a missing key would insert it; the membership test comes first).
SeedLookup(cooc, seed_pid) ==
    IF seed_pid \in DOMAIN cooc
    THEN [list |-> cooc[seed_pid], dict |-> cooc]
    ELSE [list |-> <<>>, dict |-> cooc]

\* variant: candidate_counts[similar_pid] = 1
CountVoteAssigned(acc, similar_pid, interested) ==
    IF similar_pid \in interested THEN acc
    ELSE IF similar_pid \in DOMAIN acc.counts
         THEN acc
         ELSE [counts |-> acc.counts @@ (similar_pid :> 1),
               order |-> Append(acc.order, similar_pid)]

\* `if similar_pid not in interested_products: candidate_counts[similar_pid] += 1`
\* acc = [counts |-> pid -> votes, order |-> pids in dict insertion order]
CountVote(acc, similar_pid, interested) ==
    IF similar_pid \in interested THEN acc
    ELSE IF similar_pid \in DOMAIN acc.counts
         THEN [acc EXCEPT !.counts[similar_pid] = @ + 1]
         ELSE [counts |-> acc.counts @@ (similar_pid :> 1),
               order |-> Append(acc.order, similar_pid)]

RECURSIVE CountSimilar(_, _, _)
CountSimilar(list, interested, acc) ==
    IF list = <<>> THEN acc
    ELSE CountSimilar(Tail(list), interested,
                      CountVote(acc, Head(list), interested))

\* the loop over seeds; st = [acc |-> ..., cooccurrence |-> dict]
RECURSIVE CountSeeds(_, _, _)
CountSeeds(seeds, interested, st) ==
    IF seeds = <<>> THEN st
    ELSE LET look == SeedLookup(st.cooccurrence, Head(seeds))
         IN  CountSeeds(Tail(seeds), interested,
                 [acc |-> CountSimilar(look.list, interested, st.acc),
                  cooccurrence |-> look.dict])

CandidateCounts(interested, cooc) ==
    CountSeeds(SetIter(interested), interested,
               [acc |-> [counts |-> EmptyDict, order |-> <<>>],
                cooccurrence |-> cooc])

\* sorted(candidate_counts.items(), key=count, reverse=True): stable, so equal
\* counts keep dict insertion order
RECURSIVE RankedCandidates(_, _)
RankedCandidates(order, counts) ==
    IF order = <<>> THEN <<>>
    ELSE LET m == CHOOSE v \in {counts[order[i]] : i \in DOMAIN order} :
                      \A i \in DOMAIN order : counts[order[i]] <= v
             k == CHOOSE i \in DOMAIN order :
                      /\ counts[order[i]] = m
                      /\ \A j \in 1..(i - 1) : counts[order[j]] # m
             rest == [i \in 1..(Len(order) - 1) |->
                         IF i < k THEN order[i] ELSE order[i + 1]]
         IN  <<order[k]>> \o RankedCandidates(rest, counts)

\* the loop over ranked candidates: skip (pid, brand) pairs already seen,
\* append, stop at 5
RECURSIVE TakeCandidates(_, _, _, _)
TakeCandidates(ranked, brands, recs, seen) ==
    IF ranked = <<>> THEN recs
    ELSE LET pid == Head(ranked)
             item == <<pid, BrandOf(brands, pid)>>
         IN  IF item \in seen
             THEN TakeCandidates(Tail(ranked), brands, recs, seen)
             ELSE IF Len(recs) + 1 >= 5
                  THEN Append(recs, pid)
                  ELSE TakeCandidates(Tail(ranked), brands, Append(recs, pid),
                                      seen \cup {item})

\* the loop over product_popularity rows in fill_with_popular_products
RECURSIVE FillLoop(_, _, _, _, _)
FillLoop(rows, recs, seen, interested, limit) ==
    IF rows = <<>> THEN recs
    ELSE LET row == Head(rows)
             item == <<row.pid, row.brand>>
         IN  IF row.pid \in interested
             THEN FillLoop(Tail(rows), recs, seen, interested, limit)
             ELSE IF item \in seen
                  THEN FillLoop(Tail(rows), recs, seen, interested, limit)
                  ELSE IF Len(recs) + 1 >= limit
                       THEN Append(recs, row.pid)
                       ELSE FillLoop(Tail(rows), Append(recs, row.pid),
                                     seen \cup {item}, interested, limit)

\* variant: the fill keeps one product per brand
RECURSIVE FillLoopOnePerBrand(_, _, _, _, _)
FillLoopOnePerBrand(rows, recs, seenBrands, interested, limit) ==
    IF rows = <<>> THEN recs
    ELSE LET row == Head(rows)
         IN  IF row.pid \in interested \/ row.brand \in seenBrands
             THEN FillLoopOnePerBrand(Tail(rows), recs, seenBrands, interested,
                                      limit)
             ELSE IF Len(recs) + 1 >= limit
                  THEN Append(recs, row.pid)
                  ELSE FillLoopOnePerBrand(Tail(rows), Append(recs, row.pid),
                           seenBrands \cup {row.brand}, interested, limit)

fill_one_per_brand(recommendations, interested_products, pop, brands) ==
    FillLoopOnePerBrand(pop, recommendations,
             {BrandOf(brands, recommendations[i]) : i \in DOMAIN recommendations},
             interested_products, max_count)

fill_with_popular_products(recommendations, interested_products, pop, brands) ==
    FillLoop(pop, recommendations,
             {<<recommendations[i], BrandOf(brands, recommendations[i])>> :
                  i \in DOMAIN recommendations},
             interested_products, max_count)

\* returns the list and the co-occurrence dict as the call leaves it
get_recommendations_for_existing_user(uid, stats, pop, brands, cooc) ==
    LET user_data == {r \in stats : r.uid = uid}
        interested == InterestedProducts(user_data)
        counted == CandidateCounts(interested, cooc)
        ranked == RankedCandidates(counted.acc.order, counted.acc.counts)
        picked == TakeCandidates(ranked, brands, <<>>, {})
    IN  IF user_data = {}
        THEN [recommendations |-> <<>>, cooccurrence |-> cooc]
        ELSE [recommendations |->
                 IF Len(picked) < 5
                 THEN fill_with_popular_products(picked, interested, pop, brands)
                 ELSE picked,
              cooccurrence |-> counted.cooccurrence]

get_recommendations(uid, stats, pop, brands, cooc) ==
    LET user_exists == uid \in {r.uid : r \in stats}
        got == IF user_exists
               THEN get_recommendations_for_existing_user(uid, stats, pop,
                                                          brands, cooc)
               ELSE [recommendations |->
                        fill_with_popular_products(<<>>, {}, pop, brands),
                     cooccurrence |-> cooc]
    IN  [uid |-> uid,
         products |-> SubSeq(got.recommendations, 1,
                             Min(5, Len(got.recommendations))),
         cooccurrence |-> got.cooccurrence]

----------------------------------------------------------------------------
(* Inputs *)

MaxRows == 3
NPairs == 5

Row(u, p, b, c, a, n) ==
    [uid |-> u, pid |-> p, brand |-> b, click |-> c, add_to_cart |-> a,
     purchase |-> n]

\* user ids asked for: 0 has no row in any dataset
QueryUids == {0, 1, 2}

\* every order in which this process can iterate a set of pids
HashOrders(pids) == SortedDesc(pids, [p \in pids |-> 0])

\* Small datasets: up to MaxRows rows of two users over three products, one
\* of them sold under two brands; click-only, cart-only and purchase rows.
Pids == {10, 20, 30}
RowPool ==
    {Row(1, k[1], k[2], 1, 0, 0) :
        k \in {<<10, "a">>, <<10, "b">>, <<20, "a">>, <<30, "a">>}}
    \cup {Row(u, k[1], k[2], 0, 0, 1) : u \in {1, 2},
        k \in {<<10, "a">>, <<10, "b">>, <<20, "a">>, <<30, "a">>}}
    \cup {Row(2, 20, "a", 0, 1, 0), Row(2, 30, "a", 0, 2, 0)}

Datasets == SubsetsUpTo(RowPool, MaxRows)

\* Wide catalogs: NPairs pairs of products (Seed(k), Cand(k)), each pair bought
\* together by its own shopper k + 1; user 1 may have clicked the seed. One
\* optional extra: shopper 2 also bought the seed of pair 2, or one more
\* product, or one more shopper also bought pair 1.
Seed(k) == 2 * k - 1
Cand(k) == 2 * k
PairRows(k, mode) ==
    IF mode = "absent" THEN {}
    ELSE {Row(k + 1, Seed(k), "a", 0, 0, 2 * k),
          Row(k + 1, Cand(k), "a", 0, 1, 2 * k - 1)}
         \cup (IF mode = "clicked" THEN {Row(1, Seed(k), "a", k, 0, 0)} ELSE {})
WideExtras ==
    {{},
     {Row(2, Seed(2), "a", 0, 0, 1)},
     {Row(2, 2 * NPairs + 1, "a", 0, 0, 1)},
     {Row(NPairs + 2, Seed(1), "a", 0, 0, 1),
      Row(NPairs + 2, Cand(1), "a", 0, 0, 1)}}
WideDatasets ==
    {UNION {PairRows(k, modes[k]) : k \in 1..NPairs} \cup extra :
        modes \in [1..NPairs -> {"absent", "bought", "clicked"}],
        extra \in WideExtras}
WideHashOrders ==
    {[i \in 1..(2 * NPairs + 1) |-> i],
     [i \in 1..(2 * NPairs + 1) |-> 2 * NPairs + 2 - i]}

\* Popularity catalogs: product 10 with clicks=100, add_to_cart=10,
\* purchases=1; product 20 with purchases=5 and at most 10 clicks and 10
\* add-to-carts; and possibly product 30, which holds most of the catalog's
\* clicks and carts.
PopDatasets ==
    {{Row(u, 10, "a", 100, 10, 1), Row(v, 20, "b", c, a, 5)} \cup other :
        u \in {1, 2}, v \in {1, 2}, c \in 0..10, a \in 0..10,
        other \in {{}, {Row(2, 30, "a", 1000, 100, 0)}}}

NoResponse == [endpoint |-> "none", status |-> 0, uid |-> 0, products |-> <<>>]
NoCall == [op |-> "none", outcome |-> "none", value |-> [type |-> "None"],
           wrote |-> FALSE]

EngineAttrs == {"user_product_stats", "product_popularity", "product_brands",
                "cooccurrence"}

----------------------------------------------------------------------------
(* main.py: module import, then the request handlers *)

InitWith(datasets, orders) ==
    /\ dataFile \in {"missing", "malformed", "ok"}
    /\ df \in (IF dataFile = "ok" THEN datasets ELSE {{}})
    /\ hashOrder \in (IF dataFile = "ok" THEN orders ELSE {<<>>})
    /\ pc = "import"
    /\ engine = "None"
    /\ attrs = {}
    /\ user_product_stats = {}
    /\ product_popularity = <<>>
    /\ product_brands = EmptyDict
    /\ cooccurrence = EmptyDict
    /\ response = NoResponse
    /\ kdb = "None"
    /\ store = EmptyDict
    /\ storeUp = TRUE
    /\ cacheCall = NoCall

Init == InitWith(Datasets, HashOrders(Pids))
InitWide == InitWith(WideDatasets, WideHashOrders)
InitPop == InitWith(PopDatasets, HashOrders(Pids))

\* main.py:21-24: data.csv does not exist
StartupMissingFile ==
    /\ pc = "import"
    /\ dataFile = "missing"
    /\ engine' = "None"
    /\ pc' = "serving"
    /\ UNCHANGED <<dataFile, df, hashOrder, attrs, user_product_stats,
                   product_popularity, product_brands, cooccurrence, response>>
    /\ UNCHANGED cacheVars

\* variant: the half-built object stays bound when the constructor raises
StartupLoadFailsKeepsEngine ==
    /\ pc = "import"
    /\ dataFile = "malformed"
    /\ engine' = "RecommendationEngine"
    /\ attrs' = {"user_product_stats"}
    /\ pc' = "serving"
    /\ UNCHANGED <<dataFile, df, hashOrder, user_product_stats,
                   product_popularity, product_brands, cooccurrence, response>>
    /\ UNCHANGED cacheVars

\* main.py:26,28-30: RecommendationEngine(DATA_FILE) raises (a required column
\* is absent or unreadable); whatever the constructor had built is dropped
StartupLoadFails ==
    /\ pc = "import"
    /\ dataFile = "malformed"
    /\ engine' = "None"
    /\ pc' = "serving"
    /\ UNCHANGED <<dataFile, df, hashOrder, attrs, user_product_stats,
                   product_popularity, product_brands, cooccurrence, response>>
    /\ UNCHANGED cacheVars

\* main.py:26-27: the constructor runs _prepare_data and _prepare_cooccurrence
\* to the end, and only then is the global bound
StartupLoads ==
    /\ pc = "import"
    /\ dataFile = "ok"
    /\ user_product_stats' = UserProductStats(df)
    /\ product_popularity' \in PopularityRankings(df)
    /\ product_brands' \in ProductBrandMaps(df)
    /\ cooccurrence' \in Cooccurrences(UserProductStats(df))
    /\ attrs' = EngineAttrs
    /\ engine' = "RecommendationEngine"
    /\ pc' = "serving"
    /\ UNCHANGED <<dataFile, df, hashOrder, response>>
    /\ UNCHANGED cacheVars

\* GET /recommendations?user_id=...
Recommendations(user_id) ==
    /\ pc = "serving"
    /\ IF engine = "None"
       THEN /\ response' = [endpoint |-> "recommendations", status |-> 503,
                            uid |-> user_id, products |-> <<>>]
            /\ UNCHANGED cooccurrence
       ELSE IF attrs # EngineAttrs
       THEN /\ response' = [endpoint |-> "recommendations", status |-> 500,
                            uid |-> user_id, products |-> <<>>]
            /\ UNCHANGED cooccurrence
       ELSE LET r == get_recommendations(user_id, user_product_stats,
                         product_popularity, product_brands, cooccurrence)
            IN  /\ response' = [endpoint |-> "recommendations", status |-> 200,
                                uid |-> r.uid, products |-> r.products]
                /\ cooccurrence' = r.cooccurrence
    /\ UNCHANGED <<dataFile, df, hashOrder, pc, engine, attrs,
                   user_product_stats, product_popularity, product_brands>>
    /\ UNCHANGED cacheVars

\* GET /health
HealthCheck ==
    /\ pc = "serving"
    /\ response' = [endpoint |-> "health",
                    status |-> IF engine = "None" THEN 503 ELSE 200,
                    uid |-> 0, products |-> <<>>]
    /\ UNCHANGED <<dataFile, df, hashOrder, pc, engine, attrs,
                   user_product_stats, product_popularity, product_brands,
                   cooccurrence>>
    /\ UNCHANGED cacheVars

Next ==
    \/ StartupMissingFile
    \/ StartupLoadFails
    \/ StartupLoads
    \/ \E user_id \in QueryUids : Recommendations(user_id)
    \/ HealthCheck

Spec == Init /\ [][Next]_vars
SpecWide == InitWide /\ [][Next]_vars
SpecPop == InitPop /\ [][Next]_vars

----------------------------------------------------------------------------
(* cache.py: CacheManager over a KeyDB store *)

\* Python values
PyNone == [type |-> "None"]
PyStr(x) == [type |-> "str", str |-> x]
PyList(l) == [type |-> "list", items |-> l]
PySet(x) == [type |-> "set", elems |-> x]
PyIntDict(m) == [type |-> "dict", keytype |-> "int", map |-> m]
PyStrDict(m) == [type |-> "dict", keytype |-> "str", map |-> m]

\* stored texts: "", text that is not JSON, and JSON documents
EmptyText == [kind |-> "empty"]
Garbage == [kind |-> "garbage"]
JsonNull == [kind |-> "null"]
JsonArray(l) == [kind |-> "array", items |-> l]
JsonObject(m) == [kind |-> "object", members |-> m]

\* str(k) and int(s) on the keys in play; int raises on any other text
IntStr == (10 :> "10") @@ (20 :> "20")
StrInt == ("10" :> 10) @@ ("20" :> 20)

returned(v) == [raised |-> FALSE, value |-> v]
raisedException == [raised |-> TRUE, value |-> PyNone]

\* json.dumps: int keys become their decimal text; a set is not serialisable
json_dumps(v) ==
    CASE v.type = "dict" /\ v.keytype = "int" ->
            returned(JsonObject([t \in {IntStr[k] : k \in DOMAIN v.map} |->
                                    v.map[StrInt[t]]]))
      [] v.type = "dict" /\ v.keytype = "str" -> returned(JsonObject(v.map))
      [] v.type = "list" -> returned(JsonArray(v.items))
      [] v.type = "None" -> returned(JsonNull)
      [] OTHER -> raisedException

\* json.loads: object keys come back as str
json_loads(text) ==
    CASE text.kind = "object" -> returned(PyStrDict(text.members))
      [] text.kind = "array" -> returned(PyList(text.items))
      [] text.kind = "null" -> returned(PyNone)
      [] OTHER -> raisedException

\* {int(k): v for k, v in d.items()}: d.items() raises unless d is a dict,
\* int(k) raises unless k is the text of an integer
IntKeys(d) ==
    IF d.type # "dict" THEN raisedException
    ELSE IF \E k \in DOMAIN d.map : k \notin DOMAIN StrInt THEN raisedException
    ELSE returned(PyIntDict([n \in {StrInt[k] : k \in DOMAIN d.map} |->
                                d.map[IntStr[n]]]))

\* {str(k): v for k, v in brands.items()}
StrKeys(d) ==
    IF d.type # "dict" THEN raisedException
    ELSE IF d.keytype = "str" THEN returned(d)
    ELSE returned(PyStrDict([t \in {IntStr[k] : k \in DOMAIN d.map} |->
                                d.map[StrInt[t]]]))

\* self.kdb.get(key): raises when the store does not answer; None when absent
kdb_get(key) ==
    IF ~storeUp THEN raisedException
    ELSE IF key \in DOMAIN store THEN returned(store[key])
    ELSE returned(PyNone)

\* `if data:` is false for None and for ""
Truthy(data) == ~("type" \in DOMAIN data) /\ data.kind # "empty"

CacheKeys == {"cooccurrence_full", "popular_products", "product_brands"}

\* a save: `if not self.is_available(): return`, then json.dumps and kdb.set
\* inside try/except Exception
SaveCall(op, key, dumped) ==
    /\ cacheCall' = [op |-> op, outcome |-> "returned", value |-> PyNone,
                     wrote |-> kdb # "None" /\ ~dumped.raised /\ storeUp]
    /\ store' = IF kdb # "None" /\ ~dumped.raised /\ storeUp
                THEN (key :> dumped.value) @@ store
                ELSE store
    /\ UNCHANGED <<kdb, storeUp>>
    /\ UNCHANGED <<httpVars, engineVars>>

\* a load: the value the try block computes, or `default` when the cache is
\* unavailable, the key holds nothing, or anything in the try block raises
LoadCall(op, computed, default) ==
    /\ cacheCall' = [op |-> op, outcome |-> "returned",
                     value |-> IF kdb = "None" \/ computed.raised
                               THEN default ELSE computed.value,
                     wrote |-> FALSE]
    /\ UNCHANGED <<kdb, store, storeUp>>
    /\ UNCHANGED <<httpVars, engineVars>>

save_cooccurrence(cooc) ==
    SaveCall("save_cooccurrence", "cooccurrence_full", json_dumps(cooc))

load_cooccurrence ==
    LET data == kdb_get("cooccurrence_full")
        parsed == IF data.raised THEN data ELSE json_loads(data.value)
        computed == IF data.raised THEN data
                    ELSE IF ~Truthy(data.value) THEN returned(PyNone)
                    ELSE IF parsed.raised THEN parsed
                    ELSE IntKeys(parsed.value)
    IN  LoadCall("load_cooccurrence", computed, PyNone)

save_popular_products(popular_list) ==
    SaveCall("save_popular_products", "popular_products",
             json_dumps(popular_list))

load_popular_products ==
    LET data == kdb_get("popular_products")
        computed == IF data.raised THEN data
                    ELSE IF ~Truthy(data.value) THEN returned(PyNone)
                    ELSE json_loads(data.value)
    IN  LoadCall("load_popular_products", computed, PyNone)

save_product_brands(brands) ==
    LET keyed == StrKeys(brands)
    IN  SaveCall("save_product_brands", "product_brands",
                 IF keyed.raised THEN keyed ELSE json_dumps(keyed.value))

load_product_brands ==
    LET data == kdb_get("product_brands")
        parsed == IF data.raised THEN data ELSE json_loads(data.value)
        computed == IF data.raised THEN data
                    ELSE IF ~Truthy(data.value) THEN returned(PyIntDict(EmptyDict))
                    ELSE IF parsed.raised THEN parsed
                    ELSE IntKeys(parsed.value)
    IN  LoadCall("load_product_brands", computed, PyIntDict(EmptyDict))

\* the store stops or resumes answering (no call has seen the new state yet)
StoreFlips ==
    /\ kdb = "Redis"
    /\ storeUp' = ~storeUp
    /\ cacheCall' = NoCall
    /\ UNCHANGED <<kdb, store>>
    /\ UNCHANGED <<httpVars, engineVars>>

\* texts another writer can leave under a key
ForeignTexts ==
    {EmptyText, Garbage, JsonNull,
     JsonArray(<<10, 20>>),
     JsonObject(("10" :> PyList(<<20>>))),
     JsonObject(("10" :> PyStr("a"))),
     JsonObject(("abc" :> PyList(<<20>>)))}

ForeignWrite(key, text) ==
    /\ kdb = "Redis"
    /\ storeUp
    /\ store' = (key :> text) @@ store
    /\ cacheCall' = NoCall
    /\ UNCHANGED <<kdb, storeUp>>
    /\ UNCHANGED <<httpVars, engineVars>>

CoocArgs == {PyIntDict((10 :> PyList(<<20>>)) @@ (20 :> PyList(<<10>>))),
             PyIntDict(EmptyDict), PySet({10})}
PopularArgs == {PyList(<<10, 20>>), PyList(<<>>), PySet({10})}
BrandArgs == {PyIntDict((10 :> PyStr("a"))), PyIntDict(EmptyDict), PySet({10})}

\* CacheManager.__init__: kdb stays None when the redis library is missing or
\* the ping fails
InitCache ==
    /\ dataFile = "missing"
    /\ df = {}
    /\ hashOrder = <<>>
    /\ pc = "import"
    /\ engine = "None"
    /\ attrs = {}
    /\ user_product_stats = {}
    /\ product_popularity = <<>>
    /\ product_brands = EmptyDict
    /\ cooccurrence = EmptyDict
    /\ response = NoResponse
    /\ kdb \in {"None", "Redis"}
    /\ store = EmptyDict
    /\ storeUp = TRUE
    /\ cacheCall = NoCall

NextCache ==
    \/ \E c \in CoocArgs : save_cooccurrence(c)
    \/ load_cooccurrence
    \/ \E l \in PopularArgs : save_popular_products(l)
    \/ load_popular_products
    \/ \E b \in BrandArgs : save_product_brands(b)
    \/ load_product_brands
    \/ StoreFlips
    \/ \E key \in CacheKeys, text \in ForeignTexts : ForeignWrite(key, text)

SpecCache == InitCache /\ [][NextCache]_vars

----------------------------------------------------------------------------
(* Vocabulary of the properties *)

Loaded == pc = "serving" /\ engine = "RecommendationEngine"
Answered == response.endpoint = "recommendations" /\ response.status = 200
KnownUsers == {r.uid : r \in df}
CatalogPids == {r.pid : r \in df}
NoDuplicates(seq) == \A i, j \in DOMAIN seq : i # j => seq[i] # seq[j]

\* products u has a row with a positive click, add_to_cart or purchase for
InterestedSet(u) ==
    {r.pid : r \in {x \in df : x.uid = u /\
                       (x.click > 0 \/ x.add_to_cart > 0 \/ x.purchase > 0)}}

\* u has p engaged: a row with a positive add_to_cart or purchase
Engaged(u, p) ==
    \E r \in df : r.uid = u /\ r.pid = p /\ (r.add_to_cart > 0 \/ r.purchase > 0)

CooccurrenceList(p) ==
    IF p \in DOMAIN cooccurrence THEN cooccurrence[p] ELSE <<>>

\* number of seeds in S whose co-occurrence list contains c
SeedVotes(S, c) ==
    Cardinality({s \in S : c \in Range(CooccurrenceList(s))})

Position(pid) ==
    CHOOSE i \in DOMAIN product_popularity : product_popularity[i].pid = pid

RecommendAlone(u) ==
    get_recommendations(u, user_product_stats, product_popularity,
                        product_brands, cooccurrence).products

----------------------------------------------------------------------------
(* Properties *)

\* C1: every answer holds at most 5 products and no product_id twice, for
\* every dataset (also when a product_id occurs with more than one brand) and
\* every user id.
C1_AtMostFiveDistinct ==
    Answered => Len(response.products) <= 5 /\ NoDuplicates(response.products)

\* C2: no product a known user has clicked, added to cart or purchased
\* appears in that user's answer.
C2_InterestedNeverRecommended ==
    Answered /\ response.uid \in KnownUsers =>
        \A p \in InterestedSet(response.uid) : p \notin Range(response.products)

\* an answer for a known user whose interests include the most popular
\* product and a co-occurrence partner of another interest, and which still
\* recommends something
C2_Witness ==
    /\ Answered
    /\ response.uid \in KnownUsers
    /\ response.products # <<>>
    /\ product_popularity[1].pid \in InterestedSet(response.uid)
    /\ \E s \in InterestedSet(response.uid) :
          Range(CooccurrenceList(s)) \cap InterestedSet(response.uid) # {}

\* C3: a user id with no row gets exactly the first 5 entries of the
\* popularity ranking (all of them when there are fewer), in ranking order.
C3_UnknownUserGetsTopPopular ==
    Answered /\ response.uid \notin KnownUsers =>
        response.products =
            [i \in 1..Min(5, Len(product_popularity)) |-> product_popularity[i].pid]

\* an unknown user answered from a ranking of more than 5 products while the
\* co-occurrence table is not empty
C3_Witness ==
    /\ Answered
    /\ response.uid \notin KnownUsers
    /\ Len(product_popularity) > 5
    /\ DOMAIN cooccurrence # {}

\* C5: the vote count of each candidate outside the seed set S = interested(u)
\* is the number of seeds whose co-occurrence list contains it, and the
\* co-occurrence part of the answer is in non-increasing order of votes.
C5_VotesCountSeeds ==
    Answered /\ response.uid \in KnownUsers =>
        LET S == InterestedSet(response.uid)
            counts == CandidateCounts(S, cooccurrence).acc.counts
            n == Min(5, Cardinality(DOMAIN counts))
        IN  /\ DOMAIN counts = {c \in CatalogPids \ S : SeedVotes(S, c) > 0}
            /\ \A c \in DOMAIN counts : counts[c] = SeedVotes(S, c)
            /\ Len(response.products) >= n
            /\ \A i \in 1..n : response.products[i] \in DOMAIN counts
            /\ \A i, j \in 1..n : i < j =>
                  SeedVotes(S, response.products[i]) >=
                      SeedVotes(S, response.products[j])

\* an answer whose co-occurrence part holds a candidate with two votes before
\* one with a single vote
C5_Witness ==
    /\ Answered
    /\ response.uid \in KnownUsers
    /\ \E i, j \in DOMAIN response.products :
          /\ i < j
          /\ SeedVotes(InterestedSet(response.uid), response.products[i]) = 2
          /\ SeedVotes(InterestedSet(response.uid), response.products[j]) = 1

\* C6: the answer's length is min(5, number of eligible products), and with
\* fewer than 5 eligible products it is exactly those, each once.
C6_ExactlyTheEligible ==
    Answered =>
        LET eligible == CatalogPids \
                (IF response.uid \in KnownUsers
                 THEN InterestedSet(response.uid) ELSE {})
        IN  /\ Len(response.products) = Min(5, Cardinality(eligible))
            /\ Cardinality(eligible) < 5 =>
                  /\ Range(response.products) = eligible
                  /\ NoDuplicates(response.products)

TablesComplete ==
    /\ attrs = EngineAttrs
    /\ user_product_stats = UserProductStats(df)
    /\ product_popularity \in PopularityRankings(df)
    /\ product_brands \in ProductBrandMaps(df)
    /\ cooccurrence \in Cooccurrences(user_product_stats)

\* C7: 503 is answered only when the data file was missing or its load
\* failed, and then to every request; once the engine has loaded, every
\* recommendations request is answered 200 with the complete list computed
\* from completely built tables.
C7_NotReadyOnlyAfterFailedLoad ==
    /\ response.status = 503 => dataFile \in {"missing", "malformed"}
    /\ pc = "serving" /\ dataFile # "ok" /\ response.endpoint # "none" =>
          response.status = 503
    /\ pc = "serving" /\ dataFile = "ok" => Loaded /\ TablesComplete
    /\ response.endpoint = "recommendations" /\ dataFile = "ok" =>
          /\ response.status = 200
          /\ response.products = RecommendAlone(response.uid)

\* a recommendations request refused after a failed load
C7_Witness ==
    /\ dataFile = "malformed"
    /\ response.endpoint = "recommendations"
    /\ response.status = 503

\* C9: after the build, cooccurrence[p] lists, each once, exactly the
\* products q # p that some user has engaged together with p; membership and
\* association counts are symmetric; the list is in non-increasing order of
\* association count.
C9_CooccurrencePartners ==
    Loaded =>
        \A p \in CatalogPids :
            LET list == CooccurrenceList(p)
            IN  /\ Range(list) =
                     {q \in CatalogPids \ {p} :
                         \E u \in KnownUsers : Engaged(u, p) /\ Engaged(u, q)}
                /\ NoDuplicates(list)
                /\ \A q \in Range(list) :
                      /\ p \in Range(CooccurrenceList(q))
                      /\ CooccurCount(user_product_stats, p, q) =
                             CooccurCount(user_product_stats, q, p)
                /\ \A i, j \in DOMAIN list : i < j =>
                      CooccurCount(user_product_stats, p, list[i]) >=
                          CooccurCount(user_product_stats, p, list[j])

\* C10: requests leave the four tables as the load built them, and every
\* answer is what the request returns when run alone on the loaded tables.
C10_RequestsLeaveTablesAlone ==
    /\ [][pc = "serving" =>
            <<user_product_stats, product_popularity, product_brands,
              cooccurrence>>' =
            <<user_product_stats, product_popularity, product_brands,
              cooccurrence>>]_vars
    /\ [](Answered => response.products = RecommendAlone(response.uid))

\* an answer for a known user one of whose seeds has no co-occurrence entry
C10_Witness ==
    /\ Answered
    /\ response.uid \in KnownUsers
    /\ \E s \in InterestedSet(response.uid) : s \notin DOMAIN cooccurrence
    /\ response.products # <<>>

----------------------------------------------------------------------------
(* Popularity ranking *)

ClickHeavy == [pid |-> 10, brand |-> "a", click |-> 100, add_to_cart |-> 10,
               purchase |-> 1]
HasRow(row) ==
    \E i \in DOMAIN product_popularity :
        /\ product_popularity[i].pid = row.pid
        /\ product_popularity[i].click = row.click
        /\ product_popularity[i].add_to_cart = row.add_to_cart
        /\ product_popularity[i].purchase = row.purchase
\* product 20 is the purchase-heavy one: 5 purchases, at most 10 clicks and carts
HasPurchaseHeavy ==
    \E i \in DOMAIN product_popularity :
        /\ product_popularity[i].pid = 20
        /\ product_popularity[i].purchase = 5
        /\ product_popularity[i].click <= 10
        /\ product_popularity[i].add_to_cart <= 10

\* C4 as claimed: wherever both are in the catalog, the product with
\* purchases=5 and few clicks ranks strictly above the product with
\* clicks=100, add_to_cart=10, purchases=1.
C4_PurchaseHeavyRanksHigher ==
    Loaded /\ HasRow(ClickHeavy) /\ HasPurchaseHeavy =>
        Position(20) < Position(10)

\* C4 as amended: when the two products are the whole catalog, the product
\* with clicks=100, add_to_cart=10, purchases=1 ranks strictly above the one
\* with purchases=5 (it holds most of the catalog's clicks and carts, each of
\* which is scaled to the purchase total); the purchase-heavy product ranks
\* strictly above it when a third product (clicks=1000, add_to_cart=100)
\* holds most of the clicks and carts.
C4_ShareOfClicksDecides ==
    Loaded /\ HasRow(ClickHeavy) /\ HasPurchaseHeavy =>
        /\ Len(product_popularity) = 2 => Position(10) < Position(20)
        /\ HasRow([pid |-> 30, click |-> 1000, add_to_cart |-> 100,
                   purchase |-> 0]) => Position(20) < Position(10)

\* a loaded two-product catalog whose purchase-heavy product has a few clicks
C4_Witness ==
    /\ Loaded
    /\ HasRow(ClickHeavy)
    /\ HasRow([pid |-> 20, click |-> 2, add_to_cart |-> 0, purchase |-> 5])
    /\ Len(product_popularity) = 2

----------------------------------------------------------------------------
(* Cache calls *)

CacheKeyOf(op) ==
    CASE op \in {"save_cooccurrence", "load_cooccurrence"} -> "cooccurrence_full"
      [] op \in {"save_popular_products", "load_popular_products"} ->
            "popular_products"
      [] OTHER -> "product_brands"

IsLoad(op) ==
    op \in {"load_cooccurrence", "load_popular_products", "load_product_brands"}

\* the text has the JSON shape of the artifact kept under the key: an object
\* with integer keys for the two maps, an array for the popularity list
WellFormed(key, text) ==
    IF key = "popular_products" THEN text.kind = "array"
    ELSE /\ text.kind = "object"
         /\ \A k \in DOMAIN text.members : k \in DOMAIN StrInt

HoldsMalformed(key) ==
    key \in DOMAIN store /\ ~WellFormed(key, store[key])

AbsentValue(op) ==
    IF op = "load_product_brands" THEN PyIntDict(EmptyDict) ELSE PyNone

\* C8: each of the six calls returns normally; with the store unavailable or
\* raising, a save writes nothing; with the store unavailable, raising or
\* holding malformed data, a load returns the absent value.
C8_CacheCallsAreAdvisory ==
    cacheCall.op # "none" =>
        /\ cacheCall.outcome = "returned"
        /\ ~IsLoad(cacheCall.op) /\ (kdb = "None" \/ ~storeUp) => ~cacheCall.wrote
        /\ IsLoad(cacheCall.op) /\
              (kdb = "None" \/ ~storeUp \/ HoldsMalformed(CacheKeyOf(cacheCall.op)))
              => cacheCall.value = AbsentValue(cacheCall.op)

====
